---- MODULE Spec2Model ----
(***************************************************************************)
(* ShapeGraph (graphxai/datasets/shape_graph.py): construction of the      *)
(* synthetic motif graph, the ground-truth explanations derived from it,   *)
(* the sensitive-feature shuffle and the train/test/valid split masks.     *)
(*                                                                         *)
(* A graph is a record [n, edges, shape]: nodes 0..n-1, edges a set of     *)
(* two-element node sets, shape the per-node motif tag (0 = no motif).     *)
(* Tensors are functions over 0-based index ranges, as in the source.      *)
(***************************************************************************)
EXTENDS Integers, Sequences, FiniteSets, TLC

\* ------------------------------------------------------------------ bounds
\* Largest host graph the builder is taken to return.
MaxNodes == 3
\* Largest max_tries_verification.
MaxTries == 2
\* Largest model_layers.
MaxLayers == 2
\* Largest n_features.
MaxFeatures == 2
\* Largest node count whose random.sample outcomes are enumerated in full.
MaxSplitNodes == 5
\* Largest window offset of the sample outcomes kept for bigger graphs.
MaxStart == 1

\* Python's None, for the integer-valued members (seed, sensitive_feature).
None == -1

\* Motif instance ids carried by the 'shape' node attribute (0 = no motif).
ShapeTags == {0, 1, 2}
\* Values a generated feature takes.
FeatVals == {0, 1}

\* ------------------------------------------------------------ graph helpers
NodesOf(g) == 0 .. (g.n - 1)

Neighbors(g, v) == {u \in NodesOf(g) : u # v /\ {u, v} \in g.edges}

NoGraph == [n |-> 0, edges |-> {}, shape |-> <<>>]

AllEdges(n) == {{u, v} : u, v \in 0 .. (n - 1)} \ {{u} : u \in 0 .. (n - 1)}

\* Host graphs are assembled from connected base subgraphs: no node is isolated.
GraphsOn(n, tags) ==
  {[n |-> n, edges |-> E, shape |-> s] :
     E \in {F \in SUBSET AllEdges(n) : \A v \in 0 .. (n - 1) : \E e \in F : v \in e},
     s \in [0 .. (n - 1) -> tags]}

\* Every host graph of up to MaxNodes nodes.
Graphs == UNION {GraphsOn(n, ShapeTags) : n \in 2 .. MaxNodes}

\* The path 0 - 1 - ... - (n-1) without motifs: the host graphs used where only
\* the node count matters.
PathGraph(n) ==
  [n |-> n, edges |-> {{v, v + 1} : v \in 0 .. (n - 2)}, shape |-> [v \in 0 .. (n - 1) |-> 0]]

\* Ascending sequence of a finite set of non-negative integers.
SortedSeq(S) ==
  IF S = {} THEN <<>>
  ELSE LET top  == CHOOSE x \in S : \A y \in S : y <= x
           keep(x) == x \in S
       IN SelectSeq([k \in 1 .. (top + 1) |-> k - 1], keep)

\* Sequence of a finite set of pairs of non-negative integers, ordered by first
\* then second component.
SortPairs(S) ==
  IF S = {} THEN <<>>
  ELSE LET ids  == {p[1] : p \in S} \cup {p[2] : p \in S}
           w    == 1 + CHOOSE x \in ids : \A y \in ids : y <= x
           keep(p) == p \in S
       IN SelectSeq([k \in 1 .. (w * w) |-> <<(k - 1) \div w, (k - 1) % w>>], keep)

Range(f) == {f[i] : i \in DOMAIN f}

\* list(self.G.edges): each undirected edge once, as (u, v) with u < v.
EdgeList(g) == SortPairs({<<u, v>> \in NodesOf(g) \X NodesOf(g) : u < v /\ {u, v} \in g.edges})

\* torch_geometric.utils.to_undirected: both directions of every edge, coalesced
\* (sorted by row then column, duplicates removed).
to_undirected(edge_index) ==
  SortPairs(Range(edge_index) \cup {<<p[2], p[1]>> : p \in Range(edge_index)})

\* graphxai.utils.nx_conversion.khop_subgraph_nx: the nodes reachable from
\* node_idx within num_hops edge traversals.
RECURSIVE khop_subgraph_nx(_, _, _)
khop_subgraph_nx(node_idx, num_hops, g) ==
  IF num_hops = 0 THEN {node_idx}
  ELSE LET inner == khop_subgraph_nx(node_idx, num_hops - 1, g)
       IN inner \cup UNION {Neighbors(g, v) : v \in inner}

\* The node sets torch_geometric's k_hop_subgraph collects: subsets[h] holds the
\* sources of the edges whose target is in subsets[h-1].
RECURSIVE KHopFrontier(_, _, _)
KHopFrontier(node_idx, h, edge_index) ==
  IF h = 0 THEN {node_idx}
  ELSE LET prev == KHopFrontier(node_idx, h - 1, edge_index)
       IN {p[1] : p \in {q \in Range(edge_index) : q[2] \in prev}}

\* torch_geometric.utils.k_hop_subgraph(node_idx, num_hops, edge_index):
\* (subset, edge_index restricted to subset, mapping, edge_mask).
k_hop_subgraph(node_idx, num_hops, edge_index) ==
  LET S == UNION {KHopFrontier(node_idx, h, edge_index) : h \in 0 .. num_hops}
      subset == SortedSeq(S)
      keep(p) == p[1] \in S /\ p[2] \in S
  IN [subset     |-> subset,
      edge_index |-> SelectSeq(edge_index, keep),
      mapping    |-> CHOOSE i \in DOMAIN subset : subset[i] = node_idx,
      edge_mask  |-> [e \in DOMAIN edge_index |-> keep(edge_index[e])]]

\* -------------------------------------------------- motif verification
\* The inserted motif (shape given as an nx.Graph): the 3-cycle.
MotifSize == 3

\* The host graphs of at most one motif's size, with at most one motif tag.
SmallGraphs == UNION {GraphsOn(n, {0, 1}) : n \in 2 .. MotifSize}

MotifOccurrences(g) ==
  {T \in SUBSET NodesOf(g) :
     Cardinality(T) = MotifSize /\ \A u, v \in T : u = v \/ {u, v} \in g.edges}

MotifInstance(g, t) == {v \in NodesOf(g) : g.shape[v] = t}

\* graphxai.datasets.utils.verify.verify_motifs: every tagged instance is a
\* well-formed motif and no occurrence of the motif exists outside the tagged
\* instances.
verify_motifs(g) ==
  /\ \A t \in (Range(g.shape) \ {0}) : MotifInstance(g, t) \in MotifOccurrences(g)
  /\ \A T \in MotifOccurrences(g) : \E t \in (Range(g.shape) \ {0}) : MotifInstance(g, t) = T

\* ------------------------------------------------- labels and features
\* graphxai.datasets.utils.label_generators.bound_graph_label: a function of
\* the graph alone; 1 for a node in or next to a motif, else 0.
bound_graph_label(g) ==
  [v \in NodesOf(g) |-> IF \E u \in khop_subgraph_nx(v, 1, g) : g.shape[u] # 0 THEN 1 ELSE 0]

\* Memo tables of the seeded library calls: sets of <<key, value>>.
Lookup(memo, key) == {p[2] : p \in {q \in memo : q[1] = key}}

\* graphxai.datasets.utils.feature_generators.gaussian_lv_generator: the
\* features of every node and the importance of every feature; with a seed, a
\* function of its arguments.
gaussian_lv_generator(g, sd, d, vals, memo) ==
  LET known == Lookup(memo, <<g, sd, d>>)
  IN IF sd # None /\ known # {} THEN known
     ELSE {[x |-> x, imp |-> w] :
             x \in [NodesOf(g) -> [0 .. (d - 1) -> vals]],
             w \in [0 .. (d - 1) -> {0, 1}]}

\* build_bound_graph (BBG_old / BBG_PA): some host graph of the family; with a
\* seed, a function of its arguments.
build_bound_graph(family, sd, memo) ==
  LET known == Lookup(memo, sd)
  IN IF sd # None /\ known # {} THEN known ELSE family

Remember(memo, sd, key, val) == IF sd = None THEN memo ELSE memo \cup {<<key, val>>}

\* torch.randperm(d): the permutations of 0..d-1.
randperm(d) ==
  {p \in [0 .. (d - 1) -> 0 .. (d - 1)] : \A a, b \in 0 .. (d - 1) : p[a] = p[b] => a = b}

\* torch.cat([v, w]) of two 0-based vectors.
cat(v, w) ==
  LET lv == Cardinality(DOMAIN v)
      lw == Cardinality(DOMAIN w)
  IN [c \in 0 .. (lv + lw - 1) |-> IF c < lv THEN v[c] ELSE w[c - lv]]

\* The reading t = t.clone()[ind]: position c receives the value at ind[c].
index_put_gather(t, ind) == [c \in DOMAIN t |-> t[ind[c]]]

\* t[ind] = t.clone() for a vector t: the value at j moves to position ind[j].
index_put(t, ind) == [c \in DOMAIN t |-> t[CHOOSE j \in DOMAIN ind : ind[j] = c]]

\* x[:, shuffle_ind] = x.clone(): index_put on every row.
shuffle_columns(x, ind) == [r \in DOMAIN x |-> index_put(x[r], ind)]

\* The index of the last column before the shuffle.
last_position(shuffle_ind) == Cardinality(DOMAIN shuffle_ind) - 1

\* shuffle_ind[-1].item()
last_item(shuffle_ind) == shuffle_ind[Cardinality(DOMAIN shuffle_ind) - 1]

\* ------------------------------------------------ explanation_generator
\* A radius of one hop whatever the number of layers.
OneHop(layers) == 1

\* The radius of the networkx-side k-hop node set (self.model_layers).
NxHops(layers) == layers

\* The whole k-hop radius.
AllHops(layers) == layers

\* The radius within which a motif makes its nodes important: 1.
OriginalHops(layers) == 1

\* The edge test without the check that the target is outside every motif.
TouchesSource(u, v, node_idx, in_motif) ==
  /\ (u \in in_motif \/ v \in in_motif)
  /\ (u = node_idx \/ v = node_idx)

\* The edge test with the negation of the last condition lost.
ConnectsSourceInMotif(u, v, node_idx, in_motif) ==
  /\ (u \in in_motif \/ v \in in_motif)
  /\ (u = node_idx \/ v = node_idx)
  /\ node_idx \in in_motif

\* The second test of the edge loop: one end in a motif, one end the target,
\* the target outside every motif.
ConnectsSource(u, v, node_idx, in_motif) ==
  /\ (u \in in_motif \/ v \in in_motif)
  /\ (u = node_idx \/ v = node_idx)
  /\ node_idx \notin in_motif

\* ShapeGraph.explanation_generator(node_idx) on graph g with the tensor-side
\* edge_index of self.graph.  key_error is the failure of a node_imp_map
\* lookup (a KeyError).
explanation_generator(g, edge_index, layers, feature_imp, node_idx) ==
  LET original_in_num_hop ==
        {g.shape[m] : m \in {v \in khop_subgraph_nx(node_idx, OriginalHops(layers), g) :
                               g.shape[v] # 0}}
      khop_nodes == khop_subgraph_nx(node_idx, NxHops(layers), g)
      node_imp_map == [v \in khop_nodes |-> g.shape[v] \in original_in_num_hop]
      khop_info == k_hop_subgraph(node_idx, layers, to_undirected(edge_index))
      subset == khop_info.subset
      key_error == \E p \in DOMAIN subset : subset[p] \notin DOMAIN node_imp_map
      node_imp == [p \in DOMAIN subset |->
                     IF subset[p] \in DOMAIN node_imp_map /\ node_imp_map[subset[p]]
                     THEN 1 ELSE 0]
      in_motif == {subset[p] : p \in {q \in DOMAIN subset : node_imp[q] = 1}}
      sub_edges == khop_info.edge_index
      edge_imp == [e \in DOMAIN sub_edges |->
                     IF sub_edges[e][1] \in in_motif /\ sub_edges[e][2] \in in_motif THEN 1
                     ELSE IF ConnectsSource(sub_edges[e][1], sub_edges[e][2], node_idx, in_motif)
                          THEN 1 ELSE 0]
  IN [node_idx    |-> node_idx,
      feature_imp |-> feature_imp,
      node_imp    |-> node_imp,
      edge_imp    |-> edge_imp,
      enc_subgraph |-> khop_info,
      key_error   |-> key_error]

\* ------------------------------------------------- int(num_nodes * 0.7)
\* A double literal is m * 2^(-e) with m its 53-bit significand, kept as five
\* 13-bit limbs, least significant first.
LimbBase == 8192

Double_0_7  == [m |-> <<1638, 4915, 6553, 3276, 1>>, e |-> 53]
Double_0_25 == [m |-> <<0, 0, 0, 0, 1>>, e |-> 54]
Double_0_05 == [m |-> <<6554, 3276, 1638, 4915, 1>>, e |-> 57]

RECURSIVE Pow2(_)
Pow2(k) == IF k = 0 THEN 1 ELSE 2 * Pow2(k - 1)

RECURSIVE BitLength(_)
BitLength(v) == IF v = 0 THEN 0 ELSE 1 + BitLength(v \div 2)

\* Carry propagation over six limbs.
RECURSIVE Normalise(_, _, _)
Normalise(limbs, idx, carry) ==
  IF idx > 6 THEN <<>>
  ELSE LET t == limbs[idx] + carry
       IN <<t % LimbBase>> \o Normalise(limbs, idx + 1, t \div LimbBase)

\* The exact product n * m, six limbs.
ExactProduct(n, m) == Normalise([idx \in 1 .. 6 |-> IF idx <= 5 THEN n * m[idx] ELSE 0], 1, 0)

\* IEEE-754 round-to-nearest-even of the exact product to 53 significant bits
\* (n < 4096, so at most 12 bits are dropped).
RoundToDouble(P) ==
  LET nz   == {idx \in 1 .. 6 : P[idx] # 0}
      top  == CHOOSE idx \in nz : \A j \in nz : j <= idx
      bits == 13 * (top - 1) + BitLength(P[top])
      s    == IF bits > 53 THEN bits - 53 ELSE 0
      low  == P[1] % Pow2(s)
      half == Pow2(s) \div 2
      odd  == (P[1] \div Pow2(s)) % 2 = 1
      up   == s > 0 /\ (low > half \/ (low = half /\ odd))
  IN IF nz = {} THEN P
     ELSE Normalise([P EXCEPT ![1] = P[1] - low + (IF up THEN Pow2(s) ELSE 0)], 1, 0)

\* int(n * lit): the double product, truncated.
int_mul(n, lit) ==
  LET R == RoundToDouble(ExactProduct(n, lit.m))
  IN (R[5] + LimbBase * R[6]) \div Pow2(lit.e - 52)

\* The exact floor of n * num / den.
floor_frac(n, num, den) == (n * num) \div den

\* --------------------------------------------------------- random.sample
KSubsets(S, k) == {T \in SUBSET S : Cardinality(T) = k}

Window(n, k, start) == {(start + j) % n : j \in 0 .. (k - 1)}

\* The outcomes of random.sample(population, k) kept by the model: every
\* k-subset of a small population, the windows at offsets 0..MaxStart of a
\* larger one 0..n-1.
Samples(population, k) ==
  IF Cardinality(population) <= MaxSplitNodes THEN KSubsets(population, k)
  ELSE {Window(Cardinality(population), k, st) : st \in 0 .. MaxStart}

\* Python's global random generator: the seed it was last given (None when its
\* state is not known) and the sample calls made since, which together
\* determine the next outcome.
UnknownRandom == [seed |-> None, calls |-> <<>>]

SampleKey(rnd, population, k) == <<rnd.seed, Append(rnd.calls, <<population, k>>)>>

random_sample(rnd, memo, population, k) ==
  LET known == Lookup(memo, SampleKey(rnd, population, k))
  IN IF rnd.seed # None /\ known # {} THEN known ELSE Samples(population, k)

AfterSample(rnd, population, k) ==
  IF rnd.seed = None THEN rnd ELSE [rnd EXCEPT !.calls = Append(@, <<population, k>>)]

\* ------------------------------------------------------------ explainers
\* Python's exception classes that the explainers raise, each with the classes
\* it is an instance of.
ExceptionBases ==
  [Exception           |-> {"Exception"},
   RuntimeError        |-> {"RuntimeError", "Exception"},
   NotImplementedError |-> {"NotImplementedError", "RuntimeError", "Exception"},
   NameError           |-> {"NameError", "Exception"}]

\* isinstance(e, base) for a raised exception of class cls; "none" is no raise.
IsInstance(cls, base) == cls # "none" /\ base \in ExceptionBases[cls]

\* A tensor of random or learned values is kept as its shape; an entry of exp
\* that is still None has set = FALSE.
Tensor(shape) == [set |-> TRUE, shape |-> shape]

NoTensor == [set |-> FALSE, shape |-> <<>>]

\* exp = {k: None for k in EXP_TYPES}
NoExp == [feature_imp |-> NoTensor, node_imp |-> NoTensor, edge_imp |-> NoTensor]

NoKhop == [subset |-> <<>>, edge_index |-> <<>>, mapping |-> 0, edge_mask |-> <<>>]

\* A mask parameter of the GNNExplainer: installed or not, its length and the
\* optimizer steps applied to it.
NoMask == [installed |-> FALSE, len |-> 0, steps |-> 0]

\* Before either explainer is constructed (L = 0).
NoExplainers ==
  [random |-> [L |-> 0],
   gnn    |-> [L |-> 0, edge_mask |-> NoMask, feature_mask |-> NoMask]]

NoArgs ==
  [node_idx |-> None, num_hops |-> None, x |-> NoTensor, edge_index |-> <<>>,
   num_nodes |-> None, get_feature_mask |-> FALSE]

NoOutcome ==
  [call |-> "", args |-> NoArgs, raised |-> "none", returned |-> FALSE,
   exp |-> NoExp, khop_info |-> NoKhop, feature_steps |-> 0, edge_steps |-> 0]

\* ------------------------------------------------------------------ state
VARIABLES
  self,       \* the ShapeGraph under construction: its members
  pc,         \* the position in __init__
  i,          \* the verification loop's variable: failed attempts so far
  gen,        \* locals of generate_shape_graph: x and the importance before
              \* the shuffle, sensitive, shuffle_ind; exp_calls counts the
              \* calls of explanation_generator
  py_random,  \* Python's global random generator
  seeded,     \* what the seeded calls have returned so far: memo tables
  attempts,   \* history: the verdicts of verify_motifs, in call order
  built,      \* history: the graph the latest builder call returned
  first,      \* the ShapeGraph the previous construction of this process made
  run,        \* 1 for the first construction of the process, 2 for the second
  explainers, \* the RandomExplainer and the GNNExplainer: their members
  outcome     \* history: the latest explainer call, its arguments and how it ended

vars == <<self, pc, i, gen, py_random, seeded, attempts, built, first, run,
          explainers, outcome>>

NoData == [x |-> <<>>, y |-> <<>>, edge_index |-> <<>>, shape |-> <<>>]

NoLocals ==
  [x |-> <<>>, feature_imp |-> <<>>, sensitive |-> <<>>, shuffle_ind |-> <<>>, exp_calls |-> 0]

\* The members after the keyword arguments are parsed, before the graph is built.
Fresh(kw) ==
  [model_layers           |-> kw.model_layers,
   make_explanations      |-> kw.make_explanations,
   verify                 |-> kw.verify,
   max_tries_verification |-> kw.max_tries_verification,
   n_features             |-> kw.n_features,
   add_sensitive_feature  |-> kw.add_sensitive_feature,
   seed                   |-> kw.seed,
   G                      |-> NoGraph,
   graph                  |-> NoData,
   feature_imp_true       |-> <<>>,
   sensitive_feature      |-> None,
   explanations           |-> [tag |-> "unset", list |-> <<>>],
   num_nodes              |-> None,
   fixed_train_mask       |-> <<>>,
   fixed_test_mask        |-> <<>>,
   fixed_valid_mask       |-> <<>>]

KwOf(obj) ==
  [model_layers           |-> obj.model_layers,
   make_explanations      |-> obj.make_explanations,
   verify                 |-> obj.verify,
   max_tries_verification |-> obj.max_tries_verification,
   n_features             |-> obj.n_features,
   add_sensitive_feature  |-> obj.add_sensitive_feature,
   seed                   |-> obj.seed]

\* The defaults of the keyword arguments.
DefaultKw ==
  [model_layers |-> 3, make_explanations |-> TRUE, verify |-> TRUE,
   max_tries_verification |-> 5, n_features |-> 10,
   add_sensitive_feature |-> TRUE, seed |-> None]

InitWith(KW) ==
  /\ self \in {Fresh(kw) : kw \in KW}
  /\ pc = "build"
  /\ i = 0
  /\ gen = NoLocals
  /\ py_random = UnknownRandom
  /\ seeded = [bbg |-> {}, glv |-> {}, sample |-> {}]
  /\ attempts = <<>>
  /\ built = NoGraph
  /\ first = Fresh(DefaultKw)
  /\ run = 1
  /\ explainers = NoExplainers
  /\ outcome = NoOutcome

\* ------------------------------------------------------ the build loop
\* A range that runs one iteration too far.
InRangeInclusive(k, tries) == k <= tries

\* for i in range(self.max_tries_verification)
InRange(k, tries) == k < tries

\* A break taken whatever the verdict.
BreaksAlways(ok) == TRUE

\* if verify_motifs(self.G, self.insert_shape): break
Breaks(ok) == ok

\* A seed that changes from one attempt to the next.
SeedPlusAttempt(sd, k) == IF sd = None THEN None ELSE sd + k

\* The seed argument of the builder call of attempt k: seed = self.seed.
AttemptSeed(sd, k) == sd

\* One iteration of the verification loop: build, verify, break or go on.
TryBuild(family) ==
  /\ pc = "build"
  /\ self.verify
  /\ InRange(i, self.max_tries_verification)
  /\ \E g \in build_bound_graph(family, AttemptSeed(self.seed, i), seeded.bbg) :
       /\ self' = [self EXCEPT !.G = g]
       /\ built' = g
       /\ seeded' = [seeded EXCEPT !.bbg = Remember(@, AttemptSeed(self.seed, i),
                                                    AttemptSeed(self.seed, i), g)]
       /\ attempts' = Append(attempts, verify_motifs(g))
       /\ IF Breaks(verify_motifs(g))
          THEN pc' = "generate" /\ i' = i
          ELSE pc' = "build" /\ i' = i + 1
  /\ py_random' = UnknownRandom
  /\ UNCHANGED <<gen, first, run, explainers, outcome>>

\* The loop's else branch: the range is exhausted without a break.
RaiseRuntimeError ==
  /\ pc = "build"
  /\ self.verify
  /\ ~InRange(i, self.max_tries_verification)
  /\ pc' = "RuntimeError"
  /\ UNCHANGED <<self, i, gen, py_random, seeded, attempts, built, first, run,
                 explainers, outcome>>

\* verify = False: the graph is built once and taken as it is.
BuildUnverified(family) ==
  /\ pc = "build"
  /\ ~self.verify
  /\ \E g \in build_bound_graph(family, self.seed, seeded.bbg) :
       /\ self' = [self EXCEPT !.G = g]
       /\ built' = g
       /\ seeded' = [seeded EXCEPT !.bbg = Remember(@, self.seed, self.seed, g)]
  /\ pc' = "generate"
  /\ py_random' = UnknownRandom
  /\ UNCHANGED <<i, gen, attempts, first, run, explainers, outcome>>

\* ------------------------------------------------ generate_shape_graph
\* The importance vector as it was before the shuffle.
PreShuffleImp(before, after) == before

\* self.feature_imp_true as explanation_generator reads it (line 300): the
\* explanations are made at lines 256-257, after the shuffle of lines 233-235.
ExplanationImp(before, after) == after

\* The members generate_shape_graph sets, given what the feature generator,
\* torch.randint and torch.randperm returned.
generate_shape_graph(obj, feats, sensitive, shuffle_ind) ==
  LET g          == obj.G
      y          == bound_graph_label(g)
      x_cat      == [r \in DOMAIN feats.x |-> cat(feats.x[r], [c \in {0} |-> sensitive[r]])]
      imp_cat    == cat(feats.imp, [c \in {0} |-> 0])
      x          == IF obj.add_sensitive_feature
                    THEN shuffle_columns(x_cat, shuffle_ind) ELSE feats.x
      imp        == IF obj.add_sensitive_feature
                    THEN index_put(imp_cat, shuffle_ind) ELSE feats.imp
      edge_index == to_undirected(EdgeList(g))
      exps       == [k \in 1 .. g.n |->
                       explanation_generator(
                         g, edge_index, obj.model_layers,
                         ExplanationImp(IF obj.add_sensitive_feature THEN imp_cat
                                        ELSE feats.imp, imp),
                         k - 1)]
      exp_calls  == IF obj.make_explanations THEN g.n ELSE 0
      key_error  == obj.make_explanations /\ \E k \in 1 .. g.n : exps[k].key_error
  IN [self |->
        [obj EXCEPT
           !.feature_imp_true  = imp,
           !.sensitive_feature = IF obj.add_sensitive_feature
                                 THEN last_item(shuffle_ind) ELSE None,
           !.graph             = [x |-> x, y |-> y, edge_index |-> edge_index,
                                  shape |-> g.shape],
           !.explanations      = IF key_error THEN @
                                 ELSE IF obj.make_explanations
                                      THEN [tag |-> "list", list |-> exps]
                                      ELSE [tag |-> "None", list |-> <<>>]],
      locals |->
        IF obj.add_sensitive_feature
        THEN [x |-> x_cat, feature_imp |-> imp_cat,
              sensitive |-> sensitive, shuffle_ind |-> shuffle_ind,
              exp_calls |-> exp_calls]
        ELSE [x |-> feats.x, feature_imp |-> feats.imp,
              sensitive |-> <<>>, shuffle_ind |-> <<>>,
              exp_calls |-> exp_calls],
      key_error |-> key_error]

\* self.generate_shape_graph(): labels, features, the sensitive column and the
\* shuffle, the Data object and the explanations.
GenerateShapeGraph(vals) ==
  /\ pc = "generate"
  /\ \E feats \in gaussian_lv_generator(self.G, self.seed, self.n_features, vals, seeded.glv),
        sensitive \in (IF self.add_sensitive_feature
                       THEN [NodesOf(self.G) -> {0, 1}] ELSE {<<>>}),
        shuffle_ind \in (IF self.add_sensitive_feature
                         THEN randperm(self.n_features + 1) ELSE {<<>>}) :
       LET out == generate_shape_graph(self, feats, sensitive, shuffle_ind)
       IN /\ self' = out.self
          /\ gen' = out.locals
          /\ seeded' = [seeded EXCEPT
                          !.glv = Remember(@, self.seed,
                                           <<self.G, self.seed, self.n_features>>, feats)]
          /\ pc' = IF out.key_error THEN "KeyError" ELSE "splits"
  /\ UNCHANGED <<i, py_random, attempts, built, first, run, explainers, outcome>>

\* ------------------------------------------------------ the split masks
\* random.seed(1234)
SplitSeed == 1234

\* No reseeding: the generator is left in the state it is in.
no_seed(rnd, a) == rnd

\* random.seed(a): the generator restarts from the state a determines.
random_seed(rnd, a) == [seed |-> a, calls |-> <<>>]

\* What is left of range_set once the nodes already taken are removed.
LeftOver(range_set, taken) == range_set \ taken

\* The population of every random.sample call: range_set itself.
Population(range_set, taken) == range_set

TrainSize(n) == int_mul(n, Double_0_7)
TestSize(n)  == int_mul(n, Double_0_25)
ValidSize(n) == int_mul(n, Double_0_05)

\* torch.tensor([s in nodes for s in range_set], dtype=torch.bool)
Mask(range_set, nodes) == [s \in range_set |-> s \in nodes]

\* self.num_nodes and the three masks.
MakeSplits ==
  /\ pc = "splits"
  /\ LET n         == self.G.n
         range_set == 0 .. (n - 1)
         rnd0      == random_seed(py_random, SplitSeed)
         pop1      == Population(range_set, {})
         rnd1      == AfterSample(rnd0, pop1, TrainSize(n))
     IN \E train_nodes \in random_sample(rnd0, seeded.sample, pop1, TrainSize(n)) :
          LET memo1 == seeded.sample \cup {<<SampleKey(rnd0, pop1, TrainSize(n)), train_nodes>>}
              pop2  == Population(range_set, train_nodes)
              rnd2  == AfterSample(rnd1, pop2, TestSize(n))
          IN \E test_nodes \in random_sample(rnd1, memo1, pop2, TestSize(n)) :
               LET memo2 == memo1 \cup {<<SampleKey(rnd1, pop2, TestSize(n)), test_nodes>>}
                   pop3  == Population(range_set, train_nodes \cup test_nodes)
                   rnd3  == AfterSample(rnd2, pop3, ValidSize(n))
               IN \E valid_nodes \in random_sample(rnd2, memo2, pop3, ValidSize(n)) :
                    /\ self' = [self EXCEPT
                                  !.num_nodes        = n,
                                  !.fixed_train_mask = Mask(range_set, train_nodes),
                                  !.fixed_test_mask  = Mask(range_set, test_nodes),
                                  !.fixed_valid_mask = Mask(range_set, valid_nodes)]
                    /\ py_random' = rnd3
                    /\ seeded' = [seeded EXCEPT
                                    !.sample = memo2 \cup
                                      {<<SampleKey(rnd2, pop3, ValidSize(n)), valid_nodes>>}]
  /\ pc' = "done"
  /\ UNCHANGED <<i, gen, attempts, built, first, run, explainers, outcome>>

\* A second ShapeGraph(...) call in the same process: the generators and the
\* seeded calls' results stay, the object is new.
Reconstruct(KW) ==
  /\ pc = "done"
  /\ run = 1
  /\ first' = self
  /\ self' \in {Fresh(kw) : kw \in KW}
  /\ pc' = "build"
  /\ i' = 0
  /\ gen' = NoLocals
  /\ attempts' = <<>>
  /\ built' = NoGraph
  /\ run' = 2
  /\ UNCHANGED <<py_random, seeded, explainers, outcome>>

\* ------------------------------------------------- explainer operations
\* The complete graph on n nodes, without motifs.
CompleteGraph(n) == [n |-> n, edges |-> AllEdges(n), shape |-> [v \in 0 .. (n - 1) |-> 0]]

\* The edge_index tensors handed to the explainers: those of the paths and
\* the complete graphs of up to MaxNodes nodes.
InputGraphs == {PathGraph(n) : n \in 2 .. MaxNodes} \cup {CompleteGraph(n) : n \in 2 .. MaxNodes}

\* torch_geometric.utils.num_nodes.maybe_num_nodes(edge_index, None):
\* the largest node index plus one.
maybe_num_nodes(edge_index) ==
  LET ids == {p[1] : p \in Range(edge_index)} \cup {p[2] : p \in Range(edge_index)}
  IN IF ids = {} THEN 0 ELSE 1 + CHOOSE m \in ids : \A k \in ids : k <= m

\* The shape of a * b for two 2-D tensors, by torch's broadcasting rule: each
\* dimension agrees or one side is 1; otherwise the product raises.
broadcast(a, b) ==
  LET fits(k) == a[k] = b[k] \/ a[k] = 1 \/ b[k] = 1
      dim(k)  == IF a[k] = 1 THEN b[k] ELSE a[k]
  IN [ok |-> fits(1) /\ fits(2), shape |-> <<dim(1), dim(2)>>]

\* RandomExplainer.get_explanation_node(node_idx, x, edge_index, num_hops)
RandomExplainer_get_explanation_node(obj, node_idx, x, edge_index, num_hops) ==
  LET hops      == IF num_hops = None THEN obj.L ELSE num_hops
      khop_info == k_hop_subgraph(node_idx, hops, edge_index)
  IN [raised    |-> "none",
      returned  |-> TRUE,
      exp       |-> [NoExp EXCEPT !.feature_imp = Tensor(<<x.shape[2]>>),
                                  !.edge_imp    = Tensor(<<Len(edge_index)>>)],
      khop_info |-> khop_info]

\* RandomExplainer.get_explanation_graph(x, edge_index, num_nodes)
RandomExplainer_get_explanation_graph(x, edge_index, num_nodes) ==
  LET n          == IF num_nodes = None THEN maybe_num_nodes(edge_index) ELSE num_nodes
      rand_mask  == Tensor(<<n, 1>>)
      product    == broadcast(rand_mask.shape, x.shape)
  IN IF ~product.ok
     THEN [raised |-> "RuntimeError", returned |-> FALSE, exp |-> NoExp, khop_info |-> NoKhop]
     ELSE [raised    |-> "none",
           returned  |-> TRUE,
           exp       |-> [NoExp EXCEPT !.feature_imp = Tensor(product.shape),
                                       !.edge_imp    = Tensor(<<Len(edge_index)>>)],
           khop_info |-> NoKhop]

\* num_epochs = 200
num_epochs == 200

\* The names bound inside GNNExplainer.get_explanation_node when line 110 runs:
\* its parameters and the locals assigned above that line.
LocalNames ==
  {"self", "node_idx", "edge_index", "x", "label", "num_hops", "get_feature_mask",
   "forward_kwargs", "exp", "khop_info", "subset", "sub_edge_index", "mapping", "_",
   "sub_x", "num_epochs", "loss_fn", "train"}

\* The names bound at the top level of gnn_explainer.py.
GlobalNames ==
  {"np", "torch", "Optional", "k_hop_subgraph", "_BaseExplainer", "EXP_TYPES",
   "GNNExplainer"}

\* Whether reading the name succeeds; an unbound name raises NameError.
Bound(name) == name \in LocalNames \cup GlobalNames

\* _BaseExplainer._set_masks: installs a fresh edge mask over the subgraph's
\* edges and, when asked, a fresh feature mask over the feature columns.
set_masks(obj, sub_x, sub_edge_index, get_feature_mask) ==
  [obj EXCEPT
     !.edge_mask    = [installed |-> TRUE, len |-> Len(sub_edge_index), steps |-> 0],
     !.feature_mask = IF get_feature_mask
                      THEN [installed |-> TRUE, len |-> sub_x.shape[2], steps |-> 0]
                      ELSE @]

\* _BaseExplainer._clear_masks: removes both masks.
clear_masks(obj) == [obj EXCEPT !.edge_mask = NoMask, !.feature_mask = NoMask]

\* train(mask, mask_type): num_epochs optimizer steps on the mask.
train(mask) == [mask EXCEPT !.steps = @ + num_epochs]

\* GNNExplainer.get_explanation_node(node_idx, edge_index, x, label, num_hops,
\* get_feature_mask).  The label only enters the loss.  explain_feature is the
\* value the name read at line 110 would have, were it bound.
GNNExplainer_get_explanation_node(obj, node_idx, edge_index, x, num_hops,
                                  get_feature_mask, explain_feature) ==
  LET hops      == IF num_hops = None THEN obj.L ELSE num_hops
      khop_info == k_hop_subgraph(node_idx, hops, edge_index)
      sub_x     == Tensor(<<Len(khop_info.subset), x.shape[2]>>)
      masked    == set_masks(obj, sub_x, khop_info.edge_index, get_feature_mask)
      with_feat == IF explain_feature
                   THEN [masked EXCEPT !.feature_mask = train(@)] ELSE masked
      trained   == [with_feat EXCEPT !.edge_mask = train(@)]
  IN IF ~Bound("explain_feature")
     THEN [obj |-> masked, raised |-> "NameError", returned |-> FALSE,
           exp |-> NoExp, khop_info |-> NoKhop,
           feature_steps |-> 0, edge_steps |-> 0]
     ELSE [obj |-> clear_masks(trained), raised |-> "none", returned |-> TRUE,
           exp |-> [NoExp EXCEPT
                      !.feature_imp = IF explain_feature
                                      THEN Tensor(<<trained.feature_mask.len>>) ELSE @,
                      !.edge_imp    = Tensor(<<trained.edge_mask.len>>)],
           khop_info |-> khop_info,
           feature_steps |-> trained.feature_mask.steps,
           edge_steps |-> trained.edge_mask.steps]

\* RandomExplainer.__init__ and GNNExplainer.__init__ on a model of L layers.
ExplainerInit ==
  /\ explainers = NoExplainers
  /\ \E L \in 1 .. MaxLayers :
       explainers' = [random |-> [L |-> L],
                      gnn    |-> [L |-> L, edge_mask |-> NoMask, feature_mask |-> NoMask]]
  /\ UNCHANGED <<self, pc, i, gen, py_random, seeded, attempts, built, first, run, outcome>>

Constructed == explainers # NoExplainers

\* A call of RandomExplainer.get_explanation_node.
RandomGetExplanationNode ==
  /\ Constructed
  /\ \E g \in InputGraphs, d \in 1 .. MaxFeatures, num_hops \in {None} \cup (1 .. MaxLayers) :
       \E node_idx \in NodesOf(g) :
         LET x          == Tensor(<<g.n, d>>)
             edge_index == to_undirected(EdgeList(g))
             out == RandomExplainer_get_explanation_node(
                      explainers.random, node_idx, x, edge_index, num_hops)
         IN outcome' = [call |-> "RandomExplainer.get_explanation_node",
                        args |-> [NoArgs EXCEPT !.node_idx = node_idx, !.num_hops = num_hops,
                                                !.x = x, !.edge_index = edge_index],
                        raised |-> out.raised, returned |-> out.returned,
                        exp |-> out.exp, khop_info |-> out.khop_info,
                        feature_steps |-> 0, edge_steps |-> 0]
  /\ UNCHANGED <<self, pc, i, gen, py_random, seeded, attempts, built, first, run, explainers>>

\* A call of RandomExplainer.get_explanation_graph.
RandomGetExplanationGraph ==
  /\ Constructed
  /\ \E g \in InputGraphs, d \in 1 .. MaxFeatures, num_nodes \in {None} \cup (1 .. MaxNodes) :
       LET x          == Tensor(<<g.n, d>>)
           edge_index == to_undirected(EdgeList(g))
           out == RandomExplainer_get_explanation_graph(x, edge_index, num_nodes)
       IN outcome' = [call |-> "RandomExplainer.get_explanation_graph",
                      args |-> [NoArgs EXCEPT !.num_nodes = num_nodes,
                                              !.x = x, !.edge_index = edge_index],
                      raised |-> out.raised, returned |-> out.returned,
                      exp |-> out.exp, khop_info |-> out.khop_info,
                      feature_steps |-> 0, edge_steps |-> 0]
  /\ UNCHANGED <<self, pc, i, gen, py_random, seeded, attempts, built, first, run, explainers>>

\* A call that raises at once: nothing is computed, nothing is returned.
Raises(call, args, cls) ==
  [call |-> call, args |-> args, raised |-> cls, returned |-> FALSE,
   exp |-> NoExp, khop_info |-> NoKhop, feature_steps |-> 0, edge_steps |-> 0]

\* RandomExplainer.get_explanation_link(): raise NotImplementedError()
RandomGetExplanationLink ==
  /\ Constructed
  /\ outcome' = Raises("RandomExplainer.get_explanation_link", NoArgs, "NotImplementedError")
  /\ UNCHANGED <<self, pc, i, gen, py_random, seeded, attempts, built, first, run, explainers>>

\* A call of GNNExplainer.get_explanation_node.
GNNGetExplanationNode ==
  /\ Constructed
  /\ \E g \in InputGraphs, d \in 1 .. MaxFeatures, num_hops \in {None} \cup (1 .. MaxLayers),
        get_feature_mask \in BOOLEAN :
       \E node_idx \in NodesOf(g) :
         LET x          == Tensor(<<g.n, d>>)
             edge_index == to_undirected(EdgeList(g))
             out == GNNExplainer_get_explanation_node(
                      explainers.gnn, node_idx, edge_index, x, num_hops,
                      get_feature_mask, get_feature_mask)
         IN /\ explainers' = [explainers EXCEPT !.gnn = out.obj]
            /\ outcome' = [call |-> "GNNExplainer.get_explanation_node",
                           args |-> [NoArgs EXCEPT !.node_idx = node_idx,
                                                   !.num_hops = num_hops,
                                                   !.x = x, !.edge_index = edge_index,
                                                   !.get_feature_mask = get_feature_mask],
                           raised |-> out.raised, returned |-> out.returned,
                           exp |-> out.exp, khop_info |-> out.khop_info,
                           feature_steps |-> out.feature_steps,
                           edge_steps |-> out.edge_steps]
  /\ UNCHANGED <<self, pc, i, gen, py_random, seeded, attempts, built, first, run>>

\* GNNExplainer.get_explanation_graph(edge_index, x, label):
\* raise Exception('GNNExplainer does not support graph-level explanation.')
GNNGetExplanationGraph ==
  /\ Constructed
  /\ \E g \in InputGraphs, d \in 1 .. MaxFeatures :
       outcome' = Raises("GNNExplainer.get_explanation_graph",
                         [NoArgs EXCEPT !.x = Tensor(<<g.n, d>>),
                                        !.edge_index = to_undirected(EdgeList(g))],
                         "Exception")
  /\ UNCHANGED <<self, pc, i, gen, py_random, seeded, attempts, built, first, run, explainers>>

\* GNNExplainer.get_explanation_link(): raise NotImplementedError()
GNNGetExplanationLink ==
  /\ Constructed
  /\ outcome' = Raises("GNNExplainer.get_explanation_link", NoArgs, "NotImplementedError")
  /\ UNCHANGED <<self, pc, i, gen, py_random, seeded, attempts, built, first, run, explainers>>

\* ------------------------------------------------------- specifications
Seeds == {None, 7}

\* Construction with the verification loop, over the small host graphs.
KwBuild ==
  [model_layers : {1}, make_explanations : BOOLEAN, verify : BOOLEAN,
   max_tries_verification : 0 .. MaxTries, n_features : {1},
   add_sensitive_feature : {FALSE}, seed : Seeds]

Init == InitWith(KwBuild)

Next ==
  \/ TryBuild(SmallGraphs)
  \/ RaiseRuntimeError
  \/ BuildUnverified(SmallGraphs)
  \/ GenerateShapeGraph({0})
  \/ MakeSplits

Spec == Init /\ [][Next]_vars

\* generate_shape_graph and its explanations over every host graph of up to
\* MaxNodes nodes, taken unverified.
KwExpl ==
  [model_layers : 1 .. MaxLayers, make_explanations : {TRUE}, verify : {FALSE},
   max_tries_verification : {0}, n_features : {1},
   add_sensitive_feature : {FALSE}, seed : {None}]

InitExpl == InitWith(KwExpl)

NextExpl ==
  \/ BuildUnverified(Graphs)
  \/ GenerateShapeGraph({0})

SpecExpl == InitExpl /\ [][NextExpl]_vars

\* generate_shape_graph over every feature matrix, importance vector,
\* sensitive column and permutation, on the two-node host graph.
KwFeat ==
  [model_layers : {1}, make_explanations : BOOLEAN, verify : {FALSE},
   max_tries_verification : {0}, n_features : 1 .. MaxFeatures,
   add_sensitive_feature : BOOLEAN, seed : {None}]

FeatGraphs == {PathGraph(2)}

InitFeat == InitWith(KwFeat)

NextFeat ==
  \/ BuildUnverified(FeatGraphs)
  \/ GenerateShapeGraph(FeatVals)

SpecFeat == InitFeat /\ [][NextFeat]_vars

\* Construction through the split masks, over host graphs of 2..MaxSplitNodes
\* nodes and of 20 and 90 nodes.
KwSplit ==
  [model_layers : {1}, make_explanations : {FALSE}, verify : {FALSE},
   max_tries_verification : {0}, n_features : {1},
   add_sensitive_feature : {FALSE}, seed : {None}]

SplitGraphs == {PathGraph(n) : n \in (2 .. MaxSplitNodes) \cup {20, 90}}

InitSplit == InitWith(KwSplit)

NextSplit ==
  \/ BuildUnverified(SplitGraphs)
  \/ GenerateShapeGraph({0})
  \/ MakeSplits

SpecSplit == InitSplit /\ [][NextSplit]_vars

\* Two constructions in one process, on two-node host graphs.
KwRerun ==
  [model_layers : {1}, make_explanations : {FALSE}, verify : {FALSE},
   max_tries_verification : {0}, n_features : {1},
   add_sensitive_feature : BOOLEAN, seed : Seeds]

RerunGraphs == {g \in GraphsOn(2, {0, 1}) : g.shape[0] = g.shape[1]}

InitRerun == InitWith(KwRerun)

NextRerun ==
  \/ BuildUnverified(RerunGraphs)
  \/ GenerateShapeGraph({0})
  \/ MakeSplits
  \/ Reconstruct(KwRerun)

SpecRerun == InitRerun /\ [][NextRerun]_vars

\* Two constructions in one process through the split masks, with any seeds,
\* over host graphs of 2..MaxSplitNodes-1 nodes.
KwResplit ==
  [model_layers : {1}, make_explanations : {FALSE}, verify : {FALSE},
   max_tries_verification : {0}, n_features : {1},
   add_sensitive_feature : {FALSE}, seed : Seeds]

ResplitGraphs == {PathGraph(n) : n \in 2 .. (MaxSplitNodes - 1)}

InitResplit == InitWith(KwResplit)

NextResplit ==
  \/ BuildUnverified(ResplitGraphs)
  \/ GenerateShapeGraph({0})
  \/ MakeSplits
  \/ Reconstruct(KwResplit)

SpecResplit == InitResplit /\ [][NextResplit]_vars

\* The two explainers, constructed once and then called in any order on the
\* edge_index tensors of InputGraphs.
InitExplainers == InitWith({DefaultKw})

NextExplainers ==
  \/ ExplainerInit
  \/ RandomGetExplanationNode
  \/ RandomGetExplanationGraph
  \/ RandomGetExplanationLink
  \/ GNNGetExplanationNode
  \/ GNNGetExplanationGraph
  \/ GNNGetExplanationLink

SpecExplainers == InitExplainers /\ [][NextExplainers]_vars

\* ------------------------------------------------------------- claims
PastLoop == pc \in {"generate", "splits", "done", "KeyError", "RuntimeError"}

AllFailed == \A j \in DOMAIN attempts : ~attempts[j]

\* C1: with verify=True the builder is called at most max_tries_verification
\* times, no attempt follows a passing one, RuntimeError is raised exactly when
\* all max_tries_verification attempts failed (none made when it is 0), and
\* after the error neither generate_shape_graph nor the split masks have run.
C1_BoundedRetry ==
  /\ Len(attempts) <= self.max_tries_verification
  /\ \A j \in DOMAIN attempts : attempts[j] => (j = Len(attempts) /\ pc # "build")
  /\ (self.verify /\ PastLoop) =>
       (pc = "RuntimeError" <=>
          (Len(attempts) = self.max_tries_verification /\ AllFailed))
  /\ pc = "RuntimeError" =>
       /\ self.verify
       /\ self.graph = NoData
       /\ self.explanations.tag = "unset"
       /\ self.num_nodes = None
       /\ self.fixed_train_mask = <<>>
       /\ self.fixed_test_mask = <<>>
       /\ self.fixed_valid_mask = <<>>

C1_Witness ==
  /\ pc = "RuntimeError"
  /\ self.max_tries_verification = 2
  /\ Len(attempts) = 2

\* C2: with verify=True, from generate_shape_graph on, self.G is the graph of
\* the last build attempt, that attempt is the only one that passed
\* verify_motifs, and labels, edge_index, shape tags and masks are those of
\* this graph.
C2_VerifiedGraphUsed ==
  (self.verify /\ pc \in {"generate", "splits", "done", "KeyError"}) =>
     /\ self.G = built
     /\ verify_motifs(self.G)
     /\ attempts # <<>>
     /\ attempts[Len(attempts)]
     /\ \A j \in 1 .. (Len(attempts) - 1) : ~attempts[j]
     /\ pc # "generate" =>
          /\ self.graph.y = bound_graph_label(self.G)
          /\ self.graph.shape = self.G.shape
          /\ self.graph.edge_index = to_undirected(EdgeList(self.G))
          /\ DOMAIN self.graph.x = NodesOf(self.G)
     /\ pc = "done" =>
          /\ self.num_nodes = self.G.n
          /\ DOMAIN self.fixed_train_mask = NodesOf(self.G)

C2_Witness ==
  /\ self.verify
  /\ pc = "done"
  /\ Len(attempts) = 2
  /\ self.make_explanations

\* The explanation of target node t (0-based) once the explanations are made.
HasExplanations == self.explanations.tag = "list"

ExpOf(t) == self.explanations.list[t + 1]

NodeImpOf(t, v) ==
  LET e == ExpOf(t)
  IN \E p \in DOMAIN e.enc_subgraph.subset :
       e.enc_subgraph.subset[p] = v /\ e.node_imp[p] = 1

\* v carries the tag of a motif with a member at the target or next to it.
TagNearTarget(g, t, v) ==
  /\ g.shape[v] # 0
  /\ \E m \in NodesOf(g) :
       /\ m = t \/ {m, t} \in g.edges
       /\ g.shape[m] # 0
       /\ g.shape[m] = g.shape[v]

\* C3: node_imp is 1 exactly for the subgraph nodes whose nonzero shape tag is
\* the tag of some motif node at or next to the target; untagged nodes and
\* nodes of motifs with no member within one hop get 0.
C3_NodeImportance ==
  HasExplanations =>
    \A t \in NodesOf(self.G) :
      LET e == ExpOf(t)
      IN \A p \in DOMAIN e.enc_subgraph.subset :
           /\ e.node_imp[p] \in {0, 1}
           /\ e.node_imp[p] = 1 <=> TagNearTarget(self.G, t, e.enc_subgraph.subset[p])

C3_Witness ==
  /\ HasExplanations
  /\ \E t \in NodesOf(self.G) :
       LET e == ExpOf(t)
       IN /\ \E p \in DOMAIN e.node_imp :
               self.G.shape[e.enc_subgraph.subset[p]] # 0 /\ e.node_imp[p] = 0
          /\ \E p \in DOMAIN e.node_imp : e.node_imp[p] = 1

\* C4: edge_imp is 1 exactly for the subgraph edges with both ends important,
\* or with exactly one end important, one end the target and the target not
\* important; it is 0 for every other edge.
C4_EdgeImportance ==
  HasExplanations =>
    \A t \in NodesOf(self.G) :
      LET e == ExpOf(t)
      IN \A k \in DOMAIN e.enc_subgraph.edge_index :
           LET u  == e.enc_subgraph.edge_index[k][1]
               v  == e.enc_subgraph.edge_index[k][2]
               iu == NodeImpOf(t, u)
               iv == NodeImpOf(t, v)
           IN /\ e.edge_imp[k] \in {0, 1}
              /\ e.edge_imp[k] = 1 <=>
                   \/ iu /\ iv
                   \/ /\ iu # iv
                      /\ u = t \/ v = t
                      /\ ~NodeImpOf(t, t)

C4_Witness ==
  /\ HasExplanations
  /\ \E t \in NodesOf(self.G) :
       LET e == ExpOf(t)
       IN /\ ~NodeImpOf(t, t)
          /\ \E k \in DOMAIN e.edge_imp :
               /\ e.edge_imp[k] = 1
               /\ NodeImpOf(t, e.enc_subgraph.edge_index[k][1])
                    # NodeImpOf(t, e.enc_subgraph.edge_index[k][2])
          /\ \E k \in DOMAIN e.edge_imp :
               /\ e.edge_imp[k] = 0
               /\ NodeImpOf(t, e.enc_subgraph.edge_index[k][1])
                    # NodeImpOf(t, e.enc_subgraph.edge_index[k][2])

\* The nodes within k edge traversals of v, by recursion over v's neighbours.
RECURSIVE HopBall(_, _, _)
HopBall(g, v, k) ==
  IF k = 0 THEN {v}
  ELSE {v} \cup UNION {HopBall(g, u, k - 1) : u \in Neighbors(g, v)}

\* C5: no node_imp_map lookup fails, there is one explanation per node, and in
\* each len(node_imp) is the number of nodes of the target's model_layers-hop
\* subgraph and len(edge_imp) the number of its directed edges.
C5_ExplanationShapes ==
  /\ pc # "KeyError"
  /\ HasExplanations =>
       /\ Len(self.explanations.list) = self.G.n
       /\ \A t \in NodesOf(self.G) :
            LET e    == ExpOf(t)
                ball == HopBall(self.G, t, self.model_layers)
            IN /\ Range(e.enc_subgraph.subset) = ball
               /\ Len(e.node_imp) = Cardinality(ball)
               /\ Len(e.edge_imp) =
                    2 * Cardinality({d \in self.G.edges : d \subseteq ball})

C5_Witness ==
  /\ HasExplanations
  /\ self.model_layers = 2
  /\ \E t \in NodesOf(self.G) :
       /\ Len(ExpOf(t).node_imp) = 3
       /\ Len(ExpOf(t).edge_imp) = 4
       /\ Cardinality(Neighbors(self.G, t)) = 1

Generated == pc \in {"splits", "done"}

\* C6: with add_sensitive_feature, one permutation shuffle_ind of the
\* n_features+1 columns is applied to x and to the importance vector alike:
\* column j and its weight both move to position shuffle_ind[j], and reading
\* the results back through shuffle_ind gives the values before the shuffle.
C6_ConsistentShuffle ==
  (Generated /\ self.add_sensitive_feature) =>
    LET p    == gen.shuffle_ind
        cols == 0 .. self.n_features
    IN /\ DOMAIN p = cols
       /\ {p[j] : j \in cols} = cols
       /\ \A j \in cols :
            /\ \A r \in NodesOf(self.G) : self.graph.x[r][p[j]] = gen.x[r][j]
            /\ self.feature_imp_true[p[j]] = gen.feature_imp[j]
       /\ \A r \in NodesOf(self.G) : [c \in cols |-> self.graph.x[r][p[c]]] = gen.x[r]
       /\ [c \in cols |-> self.feature_imp_true[p[c]]] = gen.feature_imp

C6_Witness ==
  /\ Generated
  /\ self.add_sensitive_feature
  /\ self.n_features = 2
  /\ gen.shuffle_ind[0] = 1 /\ gen.shuffle_ind[1] = 2 /\ gen.shuffle_ind[2] = 0
  /\ gen.feature_imp[0] = 1 /\ gen.feature_imp[1] = 0
  /\ self.feature_imp_true # gen.feature_imp
  /\ self.graph.x # gen.x

\* C7: with add_sensitive_feature, sensitive_feature is the column of graph.x
\* that holds the appended 0/1 sensitive vector, its importance is 0, and x
\* and feature_imp_true are n_features+1 wide; without it, sensitive_feature
\* is None and both are n_features wide.
C7_SensitiveIndex ==
  Generated =>
    IF self.add_sensitive_feature
    THEN /\ self.sensitive_feature \in 0 .. self.n_features
         /\ \A r \in NodesOf(self.G) :
              /\ gen.sensitive[r] \in {0, 1}
              /\ gen.x[r][self.n_features] = gen.sensitive[r]
              /\ self.graph.x[r][self.sensitive_feature] = gen.sensitive[r]
              /\ DOMAIN self.graph.x[r] = 0 .. self.n_features
         /\ self.feature_imp_true[self.sensitive_feature] = 0
         /\ DOMAIN self.feature_imp_true = 0 .. self.n_features
    ELSE /\ self.sensitive_feature = None
         /\ \A r \in NodesOf(self.G) : DOMAIN self.graph.x[r] = 0 .. (self.n_features - 1)
         /\ DOMAIN self.feature_imp_true = 0 .. (self.n_features - 1)

C7_Witness ==
  /\ Generated
  /\ self.add_sensitive_feature
  /\ self.n_features = 2
  /\ self.sensitive_feature = 0
  /\ gen.sensitive[0] = 1 /\ gen.sensitive[1] = 0
  /\ gen.x[0][0] = 0 /\ gen.x[1][0] = 1
  /\ gen.feature_imp[0] = 1

\* C8: two constructions with the same non-None seed and the same parameters
\* give the same graph, labels, features, importance vector and sensitive
\* index.
C8_SeedReproducible ==
  (run = 2 /\ pc = "done" /\ self.seed # None /\ KwOf(self) = KwOf(first)) =>
    /\ self.G = first.G
    /\ self.graph.y = first.graph.y
    /\ self.graph.x = first.graph.x
    /\ self.feature_imp_true = first.feature_imp_true
    /\ self.sensitive_feature = first.sensitive_feature

TrueCount(mask) == Cardinality({s \in DOMAIN mask : mask[s]})

\* C9: after construction the three masks have one entry per node and hold
\* floor(0.7n), floor(0.25n) and floor(0.05n) true entries.
C9_SplitSizes ==
  pc = "done" =>
    /\ DOMAIN self.fixed_train_mask = NodesOf(self.G)
    /\ DOMAIN self.fixed_test_mask = NodesOf(self.G)
    /\ DOMAIN self.fixed_valid_mask = NodesOf(self.G)
    /\ TrueCount(self.fixed_train_mask) = floor_frac(self.G.n, 7, 10)
    /\ TrueCount(self.fixed_test_mask) = floor_frac(self.G.n, 1, 4)
    /\ TrueCount(self.fixed_valid_mask) = floor_frac(self.G.n, 1, 20)

\* C10: each of the three random.sample calls draws from the whole range_set,
\* whatever the earlier calls returned, so each mask holds some sample of the
\* whole index range; the masks may overlap and may leave nodes out.
C10_IndependentSamples ==
  pc = "done" =>
    LET range_set == NodesOf(self.G)
        n         == self.G.n
        members(mask) == {s \in DOMAIN mask : mask[s]}
    IN /\ py_random.seed = SplitSeed
       /\ py_random.calls = << <<range_set, TrainSize(n)>>,
                               <<range_set, TestSize(n)>>,
                               <<range_set, ValidSize(n)>> >>
       /\ members(self.fixed_train_mask) \in Samples(range_set, TrainSize(n))
       /\ members(self.fixed_test_mask) \in Samples(range_set, TestSize(n))
       /\ members(self.fixed_valid_mask) \in Samples(range_set, ValidSize(n))

C10_Witness ==
  /\ pc = "done"
  /\ \E s \in NodesOf(self.G) : self.fixed_train_mask[s] /\ self.fixed_test_mask[s]
  /\ \E s \in NodesOf(self.G) :
       ~self.fixed_train_mask[s] /\ ~self.fixed_test_mask[s] /\ ~self.fixed_valid_mask[s]

\* C11: an entry point for a granularity the explainer does not implement
\* (RandomExplainer.get_explanation_link, GNNExplainer.get_explanation_link,
\* GNNExplainer.get_explanation_graph) raises NotImplementedError at once:
\* nothing is computed and nothing is returned.
C11_UnsupportedRaisesNotImplemented ==
  outcome.call \in {"RandomExplainer.get_explanation_link",
                    "GNNExplainer.get_explanation_link",
                    "GNNExplainer.get_explanation_graph"} =>
    /\ IsInstance(outcome.raised, "NotImplementedError")
    /\ ~outcome.returned
    /\ outcome.exp = NoExp
    /\ outcome.feature_steps = 0 /\ outcome.edge_steps = 0

\* C12: RandomExplainer.get_explanation_node returns feature_imp of length d
\* and edge_imp with one entry per edge of the k-hop subgraph in khop_info;
\* RandomExplainer.get_explanation_graph returns feature_imp of length d and
\* edge_imp with one entry per edge of the graph.
C12_RandomShapes ==
  LET d == outcome.args.x.shape[2]
  IN /\ outcome.call = "RandomExplainer.get_explanation_node" =>
          /\ outcome.returned
          /\ outcome.exp.feature_imp = Tensor(<<d>>)
          /\ outcome.exp.edge_imp = Tensor(<<Len(outcome.khop_info.edge_index)>>)
     /\ (outcome.call = "RandomExplainer.get_explanation_graph" /\ outcome.returned) =>
          /\ outcome.exp.feature_imp = Tensor(<<d>>)
          /\ outcome.exp.edge_imp = Tensor(<<Len(outcome.args.edge_index)>>)

\* C13: every call of GNNExplainer.get_explanation_node returns, after exactly
\* num_epochs steps on the edge mask (and num_epochs steps on the feature mask
\* when get_feature_mask is set), with edge_imp the mask over the edges of the
\* k-hop subgraph.
C13_RunsToCompletion ==
  outcome.call = "GNNExplainer.get_explanation_node" =>
    /\ outcome.raised = "none"
    /\ outcome.returned
    /\ outcome.edge_steps = num_epochs
    /\ outcome.feature_steps = (IF outcome.args.get_feature_mask THEN num_epochs ELSE 0)
    /\ outcome.exp.edge_imp = Tensor(<<Len(outcome.khop_info.edge_index)>>)

\* C14: with make_explanations=True the explanations are made after the
\* shuffle and after self.graph is assigned: one per node of G in node order,
\* the k-th for the k-th node, each over the k-hop subgraph of
\* self.graph.edge_index and each carrying the post-shuffle feature_imp_true
\* (n_features+1 long with the sensitive feature).  With
\* make_explanations=False, explanations is None and explanation_generator is
\* not called.
C14_ExplanationsAfterShuffle ==
  pc = "splits" =>
    IF self.make_explanations
    THEN /\ self.explanations.tag = "list"
         /\ Len(self.explanations.list) = self.G.n
         /\ gen.exp_calls = self.G.n
         /\ self.feature_imp_true =
              (IF self.add_sensitive_feature
               THEN index_put(gen.feature_imp, gen.shuffle_ind) ELSE gen.feature_imp)
         /\ \A k \in 1 .. self.G.n :
              LET exp == self.explanations.list[k]
              IN /\ exp.node_idx = k - 1
                 /\ exp.feature_imp = self.feature_imp_true
                 /\ Cardinality(DOMAIN exp.feature_imp) =
                      self.n_features + (IF self.add_sensitive_feature THEN 1 ELSE 0)
                 /\ exp.enc_subgraph =
                      k_hop_subgraph(k - 1, self.model_layers,
                                     to_undirected(self.graph.edge_index))
    ELSE /\ self.explanations.tag = "None"
         /\ gen.exp_calls = 0

C14_Witness ==
  /\ pc = "splits"
  /\ self.make_explanations
  /\ self.add_sensitive_feature
  /\ self.explanations.tag = "list"
  /\ gen.feature_imp # self.feature_imp_true
  /\ self.explanations.list[1].feature_imp = self.feature_imp_true

\* C15: the split masks depend on the node count alone: two constructions
\* whose graphs have the same number of nodes get the same three masks,
\* whatever their seed arguments and whatever was drawn before.
C15_SplitsDependOnNodeCount ==
  (run = 2 /\ pc = "done" /\ self.G.n = first.G.n) =>
    /\ self.fixed_train_mask = first.fixed_train_mask
    /\ self.fixed_test_mask = first.fixed_test_mask
    /\ self.fixed_valid_mask = first.fixed_valid_mask

C15_Witness ==
  /\ run = 2
  /\ pc = "done"
  /\ self.G.n = first.G.n
  /\ self.seed # first.seed
  /\ TrueCount(self.fixed_train_mask) >= 2
  /\ TrueCount(self.fixed_test_mask) >= 1
  /\ self.fixed_train_mask = first.fixed_train_mask
  /\ self.fixed_test_mask = first.fixed_test_mask

\* The positions of the target's explanation whose edge touches the target.
IncidentEdges(t) ==
  LET sub_edges == ExpOf(t).enc_subgraph.edge_index
  IN {e \in DOMAIN sub_edges : sub_edges[e][1] = t \/ sub_edges[e][2] = t}

\* C16: when the target is not marked important and some node of its k-hop
\* subgraph is, at least one edge incident to the target has edge_imp = 1.
C16_ExplanationReachesTarget ==
  HasExplanations =>
    \A t \in NodesOf(self.G) :
      LET exp    == ExpOf(t)
          subset == exp.enc_subgraph.subset
      IN (/\ exp.node_imp[exp.enc_subgraph.mapping] = 0
          /\ \E p \in DOMAIN subset : exp.node_imp[p] = 1)
         => \E e \in IncidentEdges(t) : exp.edge_imp[e] = 1

C16_Witness ==
  /\ HasExplanations
  /\ \E t \in NodesOf(self.G) :
       LET exp    == ExpOf(t)
           subset == exp.enc_subgraph.subset
       IN /\ exp.node_imp[exp.enc_subgraph.mapping] = 0
          /\ \E p \in DOMAIN subset : exp.node_imp[p] = 1
          /\ \E e \in IncidentEdges(t) : exp.edge_imp[e] = 1
          /\ \E e \in DOMAIN exp.edge_imp : e \notin IncidentEdges(t) /\ exp.edge_imp[e] = 0

\* C17: when a call of GNNExplainer.get_explanation_node has ended, by return
\* or by error, the masks it installed have been removed: no mask is installed
\* between calls.
C17_MasksCleared ==
  outcome.call = "GNNExplainer.get_explanation_node" =>
    /\ ~explainers.gnn.edge_mask.installed
    /\ ~explainers.gnn.feature_mask.installed

\* What holds of the attempts made so far when every attempt gets the same
\* seed: one verdict, success on the first attempt only, RuntimeError after
\* max_tries_verification failures.
SameVerdicts ==
  /\ \A j, k \in DOMAIN attempts : attempts[j] = attempts[k]
  /\ pc \in {"generate", "splits", "done", "KeyError"} =>
       (Len(attempts) = 1 /\ attempts[1])
  /\ pc = "RuntimeError" =>
       (Len(attempts) = self.max_tries_verification /\ AllFailed)

\* C18: with verify=True and a seed that is not None, every attempt of the
\* verification loop gets the same graph and the same verdict: construction
\* succeeds on the first attempt or raises RuntimeError after
\* max_tries_verification failures, and no attempt after a failed one succeeds.
C18_RetriesRepeat ==
  [][(self.verify /\ self.seed # None) =>
       /\ (built # NoGraph /\ built' # NoGraph) => built' = built
       /\ SameVerdicts']_vars

C18_Witness ==
  /\ self.verify
  /\ self.seed # None
  /\ pc = "RuntimeError"
  /\ Len(attempts) >= 2
  /\ AllFailed

====
